---- MODULE Spec2Model ----
(***************************************************************************)
(* A model of the ConvertTEMPLATE repository:                              *)
(*   - conv/parser.py: process_session, parse_lines_log, parse_lines_sync  *)
(*   - scripts/run_all_conversion.py: run_all_conversions                  *)
(* Strings are sequences of one-character strings, so that splitting,      *)
(* slicing and replacing act on characters as they do in Python.           *)
(***************************************************************************)
EXTENDS Integers, Sequences, FiniteSets, TLC

VARIABLES
    file,       \* the file at file_path, as the task software wrote it
    lines,      \* fobj.readlines() of that file: what every read of it returns
    task,       \* the Task object the caller holds
    call,       \* the last parser call: [op, arg]
    prev,       \* the parser call before it, and how it ended: [op, arg, outcome]
    outcome,    \* how the last call ended: "none", "returned", "raised"
    ret,        \* what the last call returned: "None" or "task" (a reference)
    err,        \* the exception the last call raised, "none" if it raised none
    out,        \* the line numbers the last call printed a diagnostic for
    parsed,     \* the (ix, time, frame, event, subevent) the last call parsed
    ncalls,     \* how many parser calls were made
    disk,       \* batch: the directory layout and the settings, as the run finds them
    nwb,        \* batch: the files of the output directory paths.nwb
    all_sessions, \* batch: subject -> sessions, in the order found
    converted,  \* batch: the list of converted files taken before the loop
    pc,         \* batch: the position of run_all_conversions
    si,         \* batch: index of the current subject in all_sessions
    sj,         \* batch: index of the current session of that subject
    calls,      \* batch: the calls of prepare_data / convert_data made so far
    status      \* batch: the status messages printed so far

vars == <<file, lines, task, call, prev, outcome, ret, err, out, parsed, ncalls,
          disk, nwb, all_sessions, converted, pc, si, sj, calls, status>>

parserVars == <<file, lines, task, call, prev, outcome, ret, err, out, parsed, ncalls>>

batchVars == <<disk, nwb, all_sessions, converted, pc, si, sj, calls, status>>

(***************************************************************************)
(* Bounds of the model.                                                    *)
(***************************************************************************)
MaxLines == 2

MaxCalls == 2

MaxSubjects == 2

MaxSessions == 2

(***************************************************************************)
(* Characters and strings.                                                 *)
(***************************************************************************)
TAB == "\\t"

CR == "\\r"

LF == "\\n"

POSITION == <<"P", "O", "S", "I", "T", "I", "O", "N">>

THINGS == <<"T", "H", "I", "N", "G", "S">>

\* Python's None.
None == "None"

(***************************************************************************)
(* Input files.  A file is written as lines of tab-separated fields, with  *)
(* LF or CRLF line endings; the last line may lack its line ending.        *)
(***************************************************************************)
\* The fields a written line is cut from: [timestamp, frame, event, subevent, x, z].
\* The third is a line with an empty subevent, the fourth a line of a sync file:
\* [timestamp, frame, on_off].
LineTemplates ==
    << << <<"0">>, <<"1">>, POSITION, <<"0">>, <<"1", ".", "0">>, <<"2", ".", "0">> >>,
       << <<"1", "0", "0">>, <<"2">>, POSITION, <<"0">>, <<"1", ".", "5">>, <<"2", ".", "5">> >>,
       << <<"7">>, <<"3">>, THINGS, <<>> >>,
       << <<"5">>, <<"9">>, <<"o", "n">> >> >>

\* The written lines: the first n fields of a template (none: a blank line).
LineBodies ==
    { SubSeq(LineTemplates[1], 1, n) : n \in {4, 6} }
      \cup { SubSeq(LineTemplates[2], 1, n) : n \in {6} }
      \cup { SubSeq(LineTemplates[3], 1, n) : n \in {0, 3, 4} }
      \cup { SubSeq(LineTemplates[4], 1, n) : n \in {1, 2, 3} }

LineEndings == { <<LF>>, <<CR, LF>> }

\* A blank last line without its line ending is no line at all: left out.
Files ==
    { f \in [ lines : UNION { [1..n -> LineBodies] : n \in 0..MaxLines },
              nl : LineEndings,
              final_nl : BOOLEAN ] :
        f.lines = <<>> \/ f.final_nl \/ f.lines[Len(f.lines)] # <<>> }

RECURSIVE JoinFields(_)
JoinFields(fields) ==
    IF fields = <<>> THEN <<>>
    ELSE IF Len(fields) = 1 THEN fields[1]
    ELSE fields[1] \o <<TAB>> \o JoinFields(Tail(fields))

RECURSIVE JoinLines(_, _, _)
JoinLines(ls, nl, final_nl) ==
    IF ls = <<>> THEN <<>>
    ELSE IF Len(ls) = 1
         THEN JoinFields(ls[1]) \o (IF final_nl THEN nl ELSE <<>>)
         ELSE JoinFields(ls[1]) \o nl \o JoinLines(Tail(ls), nl, final_nl)

\* The characters of the file on disk.
Content(f) == JoinLines(f.lines, f.nl, f.final_nl)

(***************************************************************************)
(* Python's string and file operations, as parser.py uses them.            *)
(***************************************************************************)
\* open(file_path, 'r'): text mode translates "\r\n" and "\r" to "\n".
RECURSIVE TranslateFrom(_, _, _)
TranslateFrom(s, i, acc) ==
    IF i > Len(s) THEN acc
    ELSE IF s[i] = CR
         THEN IF i < Len(s) /\ s[i + 1] = LF
              THEN TranslateFrom(s, i + 2, Append(acc, LF))
              ELSE TranslateFrom(s, i + 1, Append(acc, LF))
         ELSE TranslateFrom(s, i + 1, Append(acc, s[i]))

TranslateNewlines(s) == TranslateFrom(s, 1, <<>>)

\* fobj.readlines(): the lines of the text, each with its "\n" kept.
RECURSIVE SplitLines(_, _, _, _)
SplitLines(s, i, cur, acc) ==
    IF i > Len(s) THEN (IF cur = <<>> THEN acc ELSE Append(acc, cur))
    ELSE IF s[i] = LF THEN SplitLines(s, i + 1, <<>>, Append(acc, Append(cur, LF)))
    ELSE SplitLines(s, i + 1, Append(cur, s[i]), acc)

\* with open(file_path, 'r') as fobj: fobj.readlines()
Readlines(f) == SplitLines(TranslateNewlines(Content(f)), 1, <<>>, <<>>)

\* str.split(sep): always at least one token.
RECURSIVE SplitFrom(_, _, _, _, _)
SplitFrom(s, sep, i, cur, acc) ==
    IF i > Len(s) THEN Append(acc, cur)
    ELSE IF s[i] = sep THEN SplitFrom(s, sep, i + 1, <<>>, Append(acc, cur))
    ELSE SplitFrom(s, sep, i + 1, Append(cur, s[i]), acc)

Split(s, sep) == SplitFrom(s, sep, 1, <<>>, <<>>)

\* str.replace(c, '').
Remove(s, c) == SelectSeq(s, LAMBDA x : x # c)

\* line[:-1].
DropLast(line) == SubSeq(line, 1, Len(line) - 1)

\* line = line.replace('\r', ''); tokens = line[:-1].split('\t')
Tokens(line) == Split(DropLast(Remove(line, CR)), TAB)

\* line.split('\t')[0], of the line as read.
FirstField(line) == Split(line, TAB)[1]

(***************************************************************************)
(* The Task object: the fields parser.py and convert_data.py use.          *)
(***************************************************************************)
EmptyTask ==
    [ session |-> [start_time |-> None, end_time |-> None],
      trial |-> [trial |-> <<>>],
      position |-> [x |-> <<>>, z |-> <<>>, time |-> <<>>, speed |-> <<>>],
      head_direction |-> [degrees |-> <<>>, time |-> <<>>],
      sync_behavioral |-> [time |-> <<>>, frame |-> <<>>, on_off |-> <<>>] ]

\* `if not Task: task = Task()`: Task is the class, which is always true.
TaskClassIsFalse == FALSE

InitTaskObject(arg) == IF TaskClassIsFalse THEN "task" ELSE arg

(***************************************************************************)
(* parse_lines_log                                                         *)
(***************************************************************************)
\* Mutant: the end time taken from the first line.
SessionTimesFirstLine(t, ls) ==
    [t EXCEPT !.session = [start_time |-> FirstField(ls[1]),
                           end_time |-> FirstField(ls[1])]]

\* Mutant: `+=` for `=`, the new times added to the ones the record holds.
SessionTimesAccumulate(t, ls) ==
    [t EXCEPT !.session =
        [start_time |-> IF @.start_time = None THEN FirstField(ls[1])
                        ELSE @.start_time \o FirstField(ls[1]),
         end_time |-> IF @.end_time = None THEN FirstField(ls[Len(ls)])
                      ELSE @.end_time \o FirstField(ls[Len(ls)])]]

\* task.session['start_time'] = lines[0].split('\t')[0]
\* task.session['end_time'] = lines[-1].split('\t')[0]
SessionTimes(t, ls) ==
    [t EXCEPT !.session = [start_time |-> FirstField(ls[1]),
                           end_time |-> FirstField(ls[Len(ls)])]]

\* `if len(tokens) <= 3`: the line is reported and skipped.
UnexpectedLength(tokens) == Len(tokens) <= 3

\* The two `if event == 'THINGS': ...` branches: their bodies are placeholders.
Dispatch(t, time, frame, event, subevent) ==
    IF event = THINGS THEN t ELSE t

\* Mutant: the consistent variables read one token too early.
LogLineShifted(st, ix, line) ==
    LET tokens == Tokens(line) IN
    IF UnexpectedLength(tokens)
    THEN [st EXCEPT !.out = Append(@, ix)]
    ELSE LET time == tokens[1]
             frame == tokens[1]
             event == tokens[2]
             subevent == tokens[3]
         IN [st EXCEPT !.task = Dispatch(@, time, frame, event, subevent),
                       !.parsed = Append(@, [ix |-> ix, time |-> time, frame |-> frame,
                                             event |-> event, subevent |-> subevent])]

\* The body of the loop for line number ix (counted from 0).
LogLine(st, ix, line) ==
    LET tokens == Tokens(line) IN
    IF UnexpectedLength(tokens)
    THEN [st EXCEPT !.out = Append(@, ix)]
    ELSE LET time == tokens[1]
             frame == tokens[2]
             event == tokens[3]
             subevent == tokens[4]
         IN [st EXCEPT !.task = Dispatch(@, time, frame, event, subevent),
                       !.parsed = Append(@, [ix |-> ix, time |-> time, frame |-> frame,
                                             event |-> event, subevent |-> subevent])]

RECURSIVE LogLoop(_, _, _)
LogLoop(ls, ix, st) ==
    IF ix >= Len(ls) THEN st
    ELSE LogLoop(ls, ix + 1, LogLine(st, ix, ls[ix + 1]))

\* The whole call: the end state [task, out, parsed, outcome, ret, err].
ParseLog(ls, arg, t) ==
    LET ref == InitTaskObject(arg)
        st0 == [task |-> t, out |-> <<>>, parsed |-> <<>>,
                outcome |-> "raised", ret |-> None, err |-> "none"]
    IN IF ls = <<>> THEN [st0 EXCEPT !.err = "IndexError"]
       ELSE IF ref = None THEN [st0 EXCEPT !.err = "AttributeError"]
       ELSE [LogLoop(ls, 0, [st0 EXCEPT !.task = SessionTimes(t, ls)])
                EXCEPT !.outcome = "returned", !.ret = ref]

(***************************************************************************)
(* parse_lines_sync                                                        *)
(***************************************************************************)
\* The three appends of one line; tokens[k] raises IndexError when missing.
SyncLine(st, tokens) ==
    LET s == st.task.sync_behavioral
        s1 == [s EXCEPT !.time = Append(@, tokens[1])]
        s2 == [s1 EXCEPT !.frame = Append(@, tokens[2])]
        s3 == [s2 EXCEPT !.on_off = Append(@, tokens[3])]
    IN IF Len(tokens) < 2
       THEN [st EXCEPT !.task.sync_behavioral = s1, !.err = "IndexError"]
       ELSE IF Len(tokens) < 3
            THEN [st EXCEPT !.task.sync_behavioral = s2, !.err = "IndexError"]
            ELSE [st EXCEPT !.task.sync_behavioral = s3]

RECURSIVE SyncLoop(_, _, _, _)
SyncLoop(ls, ix, ref, st) ==
    IF ix >= Len(ls) \/ st.err # "none" THEN st
    ELSE IF ref = None THEN [st EXCEPT !.err = "AttributeError"]
    ELSE SyncLoop(ls, ix + 1, ref, SyncLine(st, Tokens(ls[ix + 1])))

ParseSync(ls, arg, t) ==
    LET ref == InitTaskObject(arg)
        st0 == [task |-> t, out |-> <<>>, parsed |-> <<>>,
                outcome |-> "raised", ret |-> None, err |-> "none"]
        st1 == SyncLoop(ls, 0, ref, st0)
    IN IF st1.err # "none" THEN st1
       ELSE [st1 EXCEPT !.outcome = "returned", !.ret = ref]

(***************************************************************************)
(* process_session                                                         *)
(***************************************************************************)
\* `if task is None` reads the local name task before any assignment to it.
ProcessSessionEnd(t) ==
    [task |-> t, out |-> <<>>, parsed |-> <<>>,
     outcome |-> "raised", ret |-> None, err |-> "UnboundLocalError"]

(***************************************************************************)
(* The parser's calls as actions.                                          *)
(***************************************************************************)
Args == {None, "task"}

Finish(op, arg, st) ==
    /\ call' = [op |-> op, arg |-> arg]
    /\ prev' = [op |-> call.op, arg |-> call.arg, outcome |-> outcome]
    /\ task' = st.task
    /\ out' = st.out
    /\ parsed' = st.parsed
    /\ outcome' = st.outcome
    /\ ret' = st.ret
    /\ err' = st.err
    /\ ncalls' = ncalls + 1
    /\ UNCHANGED <<file, lines, batchVars>>

parse_lines_log ==
    /\ pc = "parser"
    /\ ncalls < MaxCalls
    /\ \E arg \in Args : \E st \in {ParseLog(lines, arg, task)} :
          Finish("parse_lines_log", arg, st)

parse_lines_sync ==
    /\ pc = "parser"
    /\ ncalls < MaxCalls
    /\ \E arg \in Args : \E st \in {ParseSync(lines, arg, task)} :
          Finish("parse_lines_sync", arg, st)

process_session ==
    /\ pc = "parser"
    /\ ncalls < MaxCalls
    /\ Finish("process_session", None, ProcessSessionEnd(task))

IdleBatch ==
    /\ disk = [subjects |-> <<>>, sessions |-> <<>>, skip_subjects |-> {},
               skip_sessions |-> {}, skip_already_run |-> FALSE, nwb |-> {}]
    /\ nwb = {}
    /\ all_sessions = <<>>
    /\ converted = {}
    /\ si = 0
    /\ sj = 0
    /\ calls = <<>>
    /\ status = <<>>

InitParser ==
    /\ file \in Files
    /\ lines = Readlines(file)
    /\ task = EmptyTask
    /\ call = [op |-> "none", arg |-> None]
    /\ prev = [op |-> "none", arg |-> None, outcome |-> "none"]
    /\ outcome = "none"
    /\ ret = None
    /\ err = "none"
    /\ out = <<>>
    /\ parsed = <<>>
    /\ ncalls = 0
    /\ pc = "parser"
    /\ IdleBatch

NextParser == parse_lines_log \/ parse_lines_sync \/ process_session

SpecParser == InitParser /\ [][NextParser]_vars

(***************************************************************************)
(* Properties of the parsers.                                              *)
(***************************************************************************)
\* The fields of a written line; a blank line is one empty field.
NumFields(body) == IF body = <<>> THEN 1 ELSE Len(body)

Column(f, j) == [i \in 1..Len(f.lines) |-> f.lines[i][j]]

LogReturned == call.op = "parse_lines_log" /\ outcome = "returned"

\* A log file of N >= 1 lines, each with the four consistent fields.
WellFormedLog(f) ==
    /\ Len(f.lines) >= 1
    /\ \A i \in 1..Len(f.lines) : Len(f.lines[i]) >= 4

\* C1: after parse_lines_log returns on a well-formed log file of N >= 1 lines,
\* the session start_time is the first field of the first line and the session
\* end_time is the first field of the last line, as written.
C1_SessionTimes ==
    (LogReturned /\ WellFormedLog(file)) =>
        /\ task.session.start_time = file.lines[1][1]
        /\ task.session.end_time = file.lines[Len(file.lines)][1]

C1_Witness ==
    /\ LogReturned
    /\ WellFormedLog(file)
    /\ Len(file.lines) = 2
    /\ file.lines[1][1] # file.lines[2][1]
    /\ task.session.end_time = file.lines[2][1]

ShortLine(f, i) == NumFields(f.lines[i]) < 4

\* C2: in parse_lines_log every line with fewer than 4 fields is reported and
\* skipped: it is not parsed, changes no trial or stream field, raises nothing,
\* and every later line with 4 or more fields is still parsed and dispatched on
\* its event field.
C2_ShortLinesSkipped ==
    (call.op = "parse_lines_log" /\ call.arg = "task" /\ lines # <<>>) =>
        /\ outcome = "returned"
        /\ \A i \in 1..Len(file.lines) :
              ShortLine(file, i) =>
                  /\ \E k \in 1..Len(out) : out[k] = i - 1
                  /\ \A k \in 1..Len(parsed) : parsed[k].ix # i - 1
        /\ \A i \in 1..Len(file.lines) :
              (~ShortLine(file, i) /\ \E j \in 1..(i - 1) : ShortLine(file, j)) =>
                  \E k \in 1..Len(parsed) :
                      parsed[k].ix = i - 1 /\ parsed[k].event = file.lines[i][3]
        /\ (ncalls = 1 /\ \A i \in 1..Len(file.lines) : ShortLine(file, i)) =>
              /\ task.trial = EmptyTask.trial
              /\ task.position = EmptyTask.position
              /\ task.head_direction = EmptyTask.head_direction
              /\ task.sync_behavioral = EmptyTask.sync_behavioral

\* C3: parse_lines_log never raises on its input: whatever the file holds (no
\* line at all, blank lines, lines of any number of fields), the call on a given
\* record returns that record.
C3_NeverRaises ==
    (call.op = "parse_lines_log" /\ call.arg = "task") =>
        outcome = "returned" /\ ret = "task"

\* A sync file: every line is [timestamp, frame, on_off].
WellFormedSync(f) == \A i \in 1..Len(f.lines) : Len(f.lines[i]) = 3

\* C4: parse_lines_sync on a file of M lines [timestamp, frame, on_off], applied
\* to an empty record, yields time, frame and on_off lists of length M that hold,
\* at index i, the three fields of line i with only the line ending removed.
C4_SyncStreams ==
    (call.op = "parse_lines_sync" /\ call.arg = "task" /\ ncalls = 1
        /\ WellFormedSync(file)) =>
        /\ outcome = "returned"
        /\ task.sync_behavioral.time = Column(file, 1)
        /\ task.sync_behavioral.frame = Column(file, 2)
        /\ task.sync_behavioral.on_off = Column(file, 3)

\* A log of K >= 1 lines (t_i, frame_i, "POSITION", subevent_i, x_i, z_i).
OnlyPosition(f) ==
    /\ Len(f.lines) >= 1
    /\ \A i \in 1..Len(f.lines) : Len(f.lines[i]) = 6 /\ f.lines[i][3] = POSITION

ParsedAgain ==
    /\ call.op \in {"parse_lines_log", "parse_lines_sync"}
    /\ call.arg = "task"
    /\ call' = call
    /\ ncalls' = ncalls + 1

\* C6, as claimed: parsing the same file twice yields identical records, the
\* record after the second parse equal to the record after the first.
C6_Idempotent ==
    [][(ParsedAgain /\ outcome = "returned" /\ outcome' = "returned")
          => task' = task]_vars

\* C6, amended: parse_lines_log is idempotent (a second parse of the file into
\* the same record ends as the first did and leaves the record as the first left
\* it); parse_lines_sync appends, so a second parse of the file into the record
\* the first one filled holds every entry twice.
C6_LogIdempotentSyncAppends ==
    [][ParsedAgain =>
          /\ (call.op = "parse_lines_log") =>
                /\ task' = task
                /\ <<outcome', ret', err', out', parsed'>>
                      = <<outcome, ret, err, out, parsed>>
          /\ (call.op = "parse_lines_sync" /\ ncalls = 1) =>
                /\ task'.sync_behavioral.time
                      = task.sync_behavioral.time \o task.sync_behavioral.time
                /\ task'.sync_behavioral.frame
                      = task.sync_behavioral.frame \o task.sync_behavioral.frame
                /\ task'.sync_behavioral.on_off
                      = task.sync_behavioral.on_off \o task.sync_behavioral.on_off
                /\ task'.session = task.session]_vars

C6_Witness ==
    /\ LogReturned
    /\ call.arg = "task"
    /\ prev = [op |-> "parse_lines_log", arg |-> "task", outcome |-> "returned"]
    /\ Len(lines) = 2
    /\ task.session.start_time # task.session.end_time

\* C7: the record argument is optional: a call without a record (here on a file
\* of at least one line) creates a new empty record, fills it and returns it; a
\* call with a record fills and returns that record.
C7_TaskOptional ==
    /\ (call.op # "none" /\ call.arg = None /\ lines # <<>>) =>
          (outcome = "returned" /\ ret # None)
    /\ (call.op # "none" /\ call.arg = "task" /\ outcome = "returned") => ret = "task"

\* C10: in every state of a record that calls of parse_lines_sync reach, also
\* after a call that stopped on a line of fewer than 3 fields, the sync time,
\* frame and on_off lists have the same length.
C10_SyncEqualLength ==
    /\ Len(task.sync_behavioral.time) = Len(task.sync_behavioral.frame)
    /\ Len(task.sync_behavioral.frame) = Len(task.sync_behavioral.on_off)

(***************************************************************************)
(* run_all_conversions                                                     *)
(***************************************************************************)
EXPERIMENT == "EXPERIMENT"

Subject(i) == <<"subject", i>>

Session(j) == <<"session", j>>

\* make_session_name(subject, experiment, session)
make_session_name(subject, experiment, session) == <<subject, experiment, session>>

\* session_name + '.nwb'
NwbFile(session_name) == <<session_name, ".nwb">>

SessionNames ==
    { make_session_name(Subject(i), EXPERIMENT, Session(j)) :
        i \in 1..MaxSubjects, j \in 1..MaxSessions }

\* At most one element of S.
AtMostOne(S) == {{}} \cup { {x} : x \in S }

\* The recordings found on disk, the skip lists and the settings: every subject
\* with the same sessions.
Disks ==
    { [ subjects |-> [i \in 1..ns |-> Subject(i)],
        sessions |-> [j \in 1..k |-> Session(j)],
        skip_subjects |-> ss,
        skip_sessions |-> sn,
        skip_already_run |-> sar,
        nwb |-> files ] :
        ns \in 0..MaxSubjects, k \in 0..MaxSessions,
        ss \in AtMostOne({ Subject(i) : i \in 1..MaxSubjects }),
        sn \in AtMostOne(SessionNames),
        sar \in BOOLEAN,
        files \in AtMostOne({ NwbFile(n) : n \in SessionNames }
                              \cup { make_session_name(Subject(1), EXPERIMENT, Session(1)) }) }

\* get_files(paths.recordings), get_files(paths.recordings / subject / EXPERIMENT)
get_files_sessions(d) == [i \in 1..Len(d.subjects) |-> d.sessions]

\* The subject and the session the two for loops take next.
NextSubjectName == disk.subjects[si + 1]

NextSession ==
    [SUBJECT |-> disk.subjects[si], EXPERIMENT |-> EXPERIMENT,
     SESSION |-> all_sessions[si][sj + 1]]

\* The session the loop body is in.
CurrentSession ==
    [SUBJECT |-> disk.subjects[si], EXPERIMENT |-> EXPERIMENT,
     SESSION |-> all_sessions[si][sj]]

SessionName(S) == make_session_name(S.SUBJECT, S.EXPERIMENT, S.SESSION)

\* Mutant: the setting SKIP_ALREADY_RUN is not consulted.
AlreadyRunAlways(session_name) == NwbFile(session_name) \in converted

\* `SETTINGS['SKIP_ALREADY_RUN'] and session_name + '.nwb' in converted`
AlreadyRun(session_name) ==
    disk.skip_already_run /\ NwbFile(session_name) \in converted

\* Mutant: an exception of prepare_data or convert_data is caught, and the loop
\* goes on with the next session.
AfterRaiseCaught == "session"

\* An exception of prepare_data or convert_data is not caught: the run ends.
AfterRaise == "raised"

\* Lines 22-35: the status message, all_sessions and converted.
Start ==
    /\ pc = "start"
    /\ status' = Append(status, "RUNNING ALL CONVERSIONS")
    /\ all_sessions' = get_files_sessions(disk)
    /\ converted' = nwb
    /\ si' = 0
    /\ pc' = "subject"
    /\ UNCHANGED <<disk, nwb, sj, calls, parserVars>>

\* `if subject in SKIP['SUBJECTS']`: continue.
SkipSubject ==
    /\ pc = "subject"
    /\ si < Len(all_sessions)
    /\ NextSubjectName \in disk.skip_subjects
    /\ status' = Append(status, "SKIPPING SUBJECT")
    /\ si' = si + 1
    /\ UNCHANGED <<disk, nwb, all_sessions, converted, pc, sj, calls, parserVars>>

\* `for session in sessions` of a subject that is not skipped.
EnterSubject ==
    /\ pc = "subject"
    /\ si < Len(all_sessions)
    /\ NextSubjectName \notin disk.skip_subjects
    /\ si' = si + 1
    /\ sj' = 0
    /\ pc' = "session"
    /\ UNCHANGED <<disk, nwb, all_sessions, converted, calls, status, parserVars>>

\* The sessions of the subject are exhausted.
NextSubject ==
    /\ pc = "session"
    /\ sj >= Len(all_sessions[si])
    /\ pc' = "subject"
    /\ UNCHANGED <<disk, nwb, all_sessions, converted, si, sj, calls, status, parserVars>>

\* `if session_name in SKIP['SESSIONS']`: continue.
SkipSession ==
    /\ pc = "session"
    /\ sj < Len(all_sessions[si])
    /\ SessionName(NextSession) \in disk.skip_sessions
    /\ status' = Append(status, "SKIPPING SESSION")
    /\ sj' = sj + 1
    /\ UNCHANGED <<disk, nwb, all_sessions, converted, pc, si, calls, parserVars>>

\* `if SETTINGS['SKIP_ALREADY_RUN'] and session_name + '.nwb' in converted`: continue.
SkipAlreadyRun ==
    /\ pc = "session"
    /\ sj < Len(all_sessions[si])
    /\ SessionName(NextSession) \notin disk.skip_sessions
    /\ AlreadyRun(SessionName(NextSession))
    /\ status' = Append(status, "SESSION ALREADY RUN")
    /\ sj' = sj + 1
    /\ UNCHANGED <<disk, nwb, all_sessions, converted, pc, si, calls, parserVars>>

\* prepare_data(SESSION=SESSION, SETTINGS=SETTINGS): it returns or it raises.
PrepareData ==
    /\ pc = "session"
    /\ sj < Len(all_sessions[si])
    /\ SessionName(NextSession) \notin disk.skip_sessions
    /\ ~AlreadyRun(SessionName(NextSession))
    /\ sj' = sj + 1
    /\ \E raised \in BOOLEAN :
          /\ calls' = Append(calls, [fn |-> "prepare_data", session |-> NextSession,
                                     raised |-> raised])
          /\ pc' = IF raised THEN AfterRaise ELSE "convert"
    /\ UNCHANGED <<disk, nwb, all_sessions, converted, si, status, parserVars>>

\* convert_data(SESSION=SESSION, SETTINGS=SETTINGS): it raises (a missing file,
\* a failed assertion), or it saves session_name + '.nwb' and returns.
ConvertData ==
    /\ pc = "convert"
    /\ \E raised \in BOOLEAN :
          /\ calls' = Append(calls, [fn |-> "convert_data", session |-> CurrentSession,
                                     raised |-> raised])
          /\ pc' = IF raised THEN AfterRaise ELSE "session"
          /\ nwb' = IF raised THEN nwb ELSE nwb \cup {NwbFile(SessionName(CurrentSession))}
    /\ UNCHANGED <<disk, all_sessions, converted, si, sj, status, parserVars>>

\* Lines 67-68: the subjects are exhausted.
Finished ==
    /\ pc = "subject"
    /\ si >= Len(all_sessions)
    /\ status' = Append(status, "FINISHED CONVERSIONS")
    /\ pc' = "done"
    /\ UNCHANGED <<disk, nwb, all_sessions, converted, si, sj, calls, parserVars>>

IdleParser ==
    /\ file = [lines |-> <<>>, nl |-> <<LF>>, final_nl |-> TRUE]
    /\ lines = <<>>
    /\ task = EmptyTask
    /\ call = [op |-> "none", arg |-> None]
    /\ prev = [op |-> "none", arg |-> None, outcome |-> "none"]
    /\ outcome = "none"
    /\ ret = None
    /\ err = "none"
    /\ out = <<>>
    /\ parsed = <<>>
    /\ ncalls = 0

InitBatch ==
    /\ disk \in Disks
    /\ nwb = disk.nwb
    /\ all_sessions = <<>>
    /\ converted = {}
    /\ pc = "start"
    /\ si = 0
    /\ sj = 0
    /\ calls = <<>>
    /\ status = <<>>
    /\ IdleParser

NextBatch ==
    \/ Start
    \/ SkipSubject
    \/ EnterSubject
    \/ NextSubject
    \/ SkipSession
    \/ SkipAlreadyRun
    \/ PrepareData
    \/ ConvertData
    \/ Finished

SpecBatch == InitBatch /\ [][NextBatch]_vars

(***************************************************************************)
(* Properties of run_all_conversions.                                      *)
(***************************************************************************)
\* The claim's condition on a (subject, session) pair found on disk.
ShouldProcess(subject, session) ==
    LET session_name == make_session_name(subject, EXPERIMENT, session) IN
    /\ subject \notin disk.skip_subjects
    /\ session_name \notin disk.skip_sessions
    /\ ~(disk.skip_already_run /\ NwbFile(session_name) \in disk.nwb)

\* prepare_data then convert_data for every pair to process, in the order on disk.
RECURSIVE ExpectedFrom(_, _)
ExpectedFrom(i, j) ==
    IF i > Len(disk.subjects) THEN <<>>
    ELSE IF j > Len(disk.sessions) THEN ExpectedFrom(i + 1, 1)
    ELSE LET S == [SUBJECT |-> disk.subjects[i], EXPERIMENT |-> EXPERIMENT,
                   SESSION |-> disk.sessions[j]]
         IN (IF ShouldProcess(disk.subjects[i], disk.sessions[j])
             THEN << <<"prepare_data", S>>, <<"convert_data", S>> >>
             ELSE <<>>) \o ExpectedFrom(i, j + 1)

Expected == ExpectedFrom(1, 1)

CallTrace == [i \in 1..Len(calls) |-> <<calls[i].fn, calls[i].session>>]

IsPrefix(s, t) == Len(s) <= Len(t) /\ s = SubSeq(t, 1, Len(s))

\* C8: the calls made are, at every moment, the first calls of: prepare_data then
\* convert_data, once each, for every pair on disk that is in no skip list and
\* not already converted (when SKIP_ALREADY_RUN is set), in the order on disk;
\* when the run finishes they are all of them, so that a pair is processed if
\* and only if it is not skipped, and no call is made for a skipped pair.
C8_ProcessedIffNotSkipped ==
    /\ IsPrefix(CallTrace, Expected)
    /\ pc = "done" => CallTrace = Expected

C8_Witness ==
    /\ pc = "done"
    /\ Len(disk.subjects) = 2
    /\ Len(disk.sessions) = 2
    /\ \E k \in 1..Len(status) : status[k] = "SKIPPING SESSION"
    /\ \E k \in 1..Len(status) : status[k] = "SESSION ALREADY RUN"
    /\ Len(calls) = 4

AnyRaised == \E i \in 1..Len(calls) : calls[i].raised

\* C9: once prepare_data or convert_data has raised, the run takes no further
\* step: the failed call is the last call made, no later session is prepared or
\* converted, and 'FINISHED CONVERSIONS' is not and will not be printed.
C9_FailureHaltsBatch ==
    [][/\ ~AnyRaised
       /\ AnyRaised' =>
             /\ calls'[Len(calls')].raised
             /\ \A k \in 1..Len(status') : status'[k] # "FINISHED CONVERSIONS"]_vars

C9_Witness ==
    /\ AnyRaised
    /\ pc = "raised"
    /\ Len(calls) + 2 <= Len(Expected)
    /\ IsPrefix(CallTrace, Expected)

====
